---- MODULE Spec2Model ----
(***************************************************************************)
(* Model of instruction/local_hash_and_join_with.go: the local hash join   *)
(* instruction LocalHashAndJoinWith.  One invocation of Function() is      *)
(* followed from the call to the return of DoLocalHashAndJoinWith.         *)
(*                                                                         *)
(* A stream is kept as the frames already delivered to the reader plus the *)
(* number of frames still to come; the content of a frame is fixed when it *)
(* is read.  Go slices readers[0], readers[1], writers[0] keep their       *)
(* zero-based indices (functions over {0,1} and {0}).                      *)
(***************************************************************************)
EXTENDS Integers, Sequences, FiniteSets, TLC

\* Longest build (left) and probe (right) stream, in frames.
MaxBuild == 3
MaxProbe == 3

\* Longest stream of either of two invocations that run side by side.
MaxShared == 1

(***************************************************************************)
(* Row codec (package util, not part of this file).  A wire byte is written *)
(* as a two-digit hex string; a decoded field value is a tagged record.    *)
(***************************************************************************)
IntVal(n) == [t |-> "int", n |-> n]
ExtVal == [t |-> "ext", n |-> 0]

\* The frame that DecodeRow rejects.
Malformed == <<"c1">>

\* The frames the build (left) stream can deliver: two rows of two fields,
\* and a malformed frame.
BuildFrames == { <<"01", "01">>, <<"01", "02">>, Malformed }

\* The frames the probe (right) stream can deliver.  The field "d4" decodes
\* to a value that EncodeRow cannot encode.
ProbeFrames ==
    { <<"01", "01">>, <<"02", "01">>, <<"01", "d4">>, <<"d4", "01">>, Malformed }

\* The key positions an instruction can be built with (zero-based).
IndexChoices == { <<0>>, <<1>> }

DecodeValue(byte) ==
    CASE byte = "01" -> IntVal(1)
      [] byte = "02" -> IntVal(2)
      [] OTHER       -> ExtVal

EncodeValue(v) == IF v.n = 1 THEN "01" ELSE "02"

\* util.DecodeRow: (row, err).
DecodeRow(input) ==
    IF \E i \in 1..Len(input) : input[i] = "c1"
    THEN [err |-> "DecodeRow", row |-> <<>>]
    ELSE [err |-> "nil", row |-> [i \in 1..Len(input) |-> DecodeValue(input[i])]]

\* util.EncodeRow: (bytes, err); one object after the other.
EncodeRow(row) ==
    IF \E i \in 1..Len(row) : row[i].t = "ext"
    THEN [err |-> "EncodeRow", bytes |-> <<>>]
    ELSE [err |-> "nil", bytes |-> [i \in 1..Len(row) |-> EncodeValue(row[i])]]

\* The fields of row at the positions (one-based) not in used, order kept.
RECURSIVE Unused(_, _, _)
Unused(row, used, i) ==
    IF i > Len(row) THEN <<>>
    ELSE (IF i \in used THEN <<>> ELSE <<row[i]>>) \o Unused(row, used, i + 1)

\* util.DecodeRowKeysValues: (keys, values, err).
DecodeRowKeysValues(input, idx) ==
    LET d == DecodeRow(input)
        used == { idx[j] + 1 : j \in 1..Len(idx) }
    IN  IF d.err # "nil"
        THEN [err |-> d.err, keys |-> <<>>, vals |-> <<>>]
        ELSE [err |-> "nil",
              keys |-> [j \in 1..Len(idx) |-> d.row[idx[j] + 1]],
              vals |-> Unused(d.row, used, 1)]

\* genKeyBytesAndValues: (keyBytes, values, err).
genKeyBytesAndValues(input, idx) ==
    LET d == DecodeRowKeysValues(input, idx)
        k == EncodeRow(d.keys)
    IN  IF d.err # "nil"
        THEN [err |-> d.err, keys |-> <<>>, vals |-> <<>>]
        ELSE [err |-> k.err, keys |-> k.bytes, vals |-> d.vals]

(***************************************************************************)
(* State.                                                                  *)
(***************************************************************************)
VARIABLES
    indexes,      \* b.indexes
    readers,      \* readers[i]: the frames read from input stream i so far
    remaining,    \* remaining[i]: the frames of input stream i not yet read
    writers,      \* writers[0]: the frames written to the output stream
    stats,        \* the *Stats handed to Function()
    pc,           \* position in Function / DoLocalHashAndJoinWith
    leftReader,   \* parameters of DoLocalHashAndJoinWith (-1: not called yet)
    rightReader,
    writer,
    hashmap,      \* map[string][]interface{}
    err,          \* the local err
    stdout,       \* what fmt.Printf has printed
    built,        \* history: hashmap when the first ProcessMessage returned
    trace,        \* history: the stream operations, in order
    calls,        \* history: the calls of util.WriteRow
    other         \* a second invocation of b.Function(), while it is not running

vars == <<indexes, readers, remaining, writers, stats, pc, leftReader,
          rightReader, writer, hashmap, err, stdout, built, trace, calls, other>>

Nil == [e |-> "nil", input |-> <<>>]
Errorf(e, input) == [e |-> e, input |-> input]

EmptyMap == [k \in {} |-> <<>>]

\* There is no second invocation.
NoOther == [pc |-> "none"]

\* MapSet that keeps the value a key already has.
MapSet_KeepFirst(m, key, vals) ==
    [k \in DOMAIN m \cup {key} |-> IF k \in DOMAIN m THEN m[k] ELSE vals]

\* MapSet that drops the entries of the other keys.
MapSet_Single(m, key, vals) ==
    [k \in {key} |-> vals]

\* hashmap[key] = vals
MapSet(m, key, vals) ==
    [k \in DOMAIN m \cup {key} |-> IF k = key THEN vals ELSE m[k]]

Init ==
    /\ indexes \in IndexChoices
    /\ readers = [i \in {0, 1} |-> <<>>]
    /\ remaining \in { [i \in {0, 1} |-> IF i = 0 THEN nb ELSE np] :
                          nb \in 0..MaxBuild, np \in 0..MaxProbe }
    /\ writers = [i \in {0} |-> <<>>]
    /\ stats = [InputCounter |-> 0, OutputCounter |-> 0, ErrorCounter |-> 0]
    /\ pc = "idle"
    /\ leftReader = -1
    /\ rightReader = -1
    /\ writer = -1
    /\ hashmap = EmptyMap
    /\ err = Nil
    /\ stdout = <<>>
    /\ built = EmptyMap
    /\ trace = <<>>
    /\ calls = <<>>
    /\ other = NoOther

(***************************************************************************)
(* Stream primitives.                                                      *)
(***************************************************************************)
\* One frame, input, is taken from input stream r.
ReadMessage(r, input) ==
    /\ readers' = [readers EXCEPT ![r] = Append(@, input)]
    /\ remaining' = [remaining EXCEPT ![r] = @ - 1]

\* util.ProcessMessage: the iteration ends, and the error is returned, when
\* the handler returns an error.
ProcessMessageEnds(e) == e # Nil

\* util.WriteRow(writer, row...): (err); encodes the row, then writes it.
WriteRow(stream, row) ==
    LET encoded == EncodeRow(row)
    IN  IF encoded.err # "nil"
        THEN [err |-> encoded.err, stream |-> stream]
        ELSE [err |-> "nil", stream |-> Append(stream, encoded.bytes)]

\* fmt.Printf of a phase's error, when there is one.
Printf(format, e) ==
    IF e # Nil THEN Append(stdout, [format |-> format, err |-> e]) ELSE stdout

Ev(op, r) == [op |-> op, r |-> r]

(***************************************************************************)
(* The two handlers handed to util.ProcessMessage.                         *)
(***************************************************************************)
\* BuildHandler that returns nil for a frame it cannot use.
BuildHandler_Swallow(m, input, idx) ==
    LET g == genKeyBytesAndValues(input, idx)
    IN  IF g.err # "nil"
        THEN [err |-> Nil, hashmap |-> m]
        ELSE [err |-> Nil, hashmap |-> MapSet(m, g.keys, g.vals)]

\* Lines 43-50: the error returned and the map afterwards.
BuildHandler(m, input, idx) ==
    LET g == genKeyBytesAndValues(input, idx)
    IN  IF g.err # "nil"
        THEN [err |-> Errorf(g.err, input), hashmap |-> m]
        ELSE [err |-> Nil, hashmap |-> MapSet(m, g.keys, g.vals)]

\* ProbeHandler that appends the mapped values before the probe values.
ProbeHandler_BuildFirst(m, input, idx) ==
    LET d == DecodeRowKeysValues(input, idx)
        keyBytes == EncodeRow(d.keys)
    IN  IF d.err # "nil"
        THEN [err |-> Errorf(d.err, input), lookup |-> FALSE, rows |-> <<>>]
        ELSE IF keyBytes.err # "nil"
        THEN [err |-> Errorf(keyBytes.err, input), lookup |-> FALSE, rows |-> <<>>]
        ELSE IF keyBytes.bytes \in DOMAIN m
        THEN [err |-> Nil, lookup |-> TRUE,
              rows |-> << (d.keys \o m[keyBytes.bytes]) \o d.vals >>]
        ELSE [err |-> Nil, lookup |-> TRUE, rows |-> <<>>]

\* ProbeHandler that passes an unmatched probe row through.
ProbeHandler_PassThrough(m, input, idx) ==
    LET d == DecodeRowKeysValues(input, idx)
        keyBytes == EncodeRow(d.keys)
    IN  IF d.err # "nil"
        THEN [err |-> Errorf(d.err, input), lookup |-> FALSE, rows |-> <<>>]
        ELSE IF keyBytes.err # "nil"
        THEN [err |-> Errorf(keyBytes.err, input), lookup |-> FALSE, rows |-> <<>>]
        ELSE IF keyBytes.bytes \in DOMAIN m
        THEN [err |-> Nil, lookup |-> TRUE,
              rows |-> << (d.keys \o d.vals) \o m[keyBytes.bytes] >>]
        ELSE [err |-> Nil, lookup |-> TRUE, rows |-> << d.keys \o d.vals >>]

\* ProbeHandler that returns nil for a frame it cannot decode.
ProbeHandler_SwallowDecode(m, input, idx) ==
    LET d == DecodeRowKeysValues(input, idx)
        keyBytes == EncodeRow(d.keys)
    IN  IF d.err # "nil"
        THEN [err |-> Nil, lookup |-> FALSE, rows |-> <<>>]
        ELSE IF keyBytes.err # "nil"
        THEN [err |-> Errorf(keyBytes.err, input), lookup |-> FALSE, rows |-> <<>>]
        ELSE IF keyBytes.bytes \in DOMAIN m
        THEN [err |-> Nil, lookup |-> TRUE,
              rows |-> << (d.keys \o d.vals) \o m[keyBytes.bytes] >>]
        ELSE [err |-> Nil, lookup |-> TRUE, rows |-> <<>>]

\* ProbeHandler that takes the key from the other positions of the row.
ProbeHandler_OtherPositions(m, input, idx) ==
    LET d == DecodeRowKeysValues(input, [j \in 1..Len(idx) |-> 1 - idx[j]])
        keyBytes == EncodeRow(d.keys)
    IN  IF d.err # "nil"
        THEN [err |-> Errorf(d.err, input), lookup |-> FALSE, rows |-> <<>>]
        ELSE IF keyBytes.err # "nil"
        THEN [err |-> Errorf(keyBytes.err, input), lookup |-> FALSE, rows |-> <<>>]
        ELSE IF keyBytes.bytes \in DOMAIN m
        THEN [err |-> Nil, lookup |-> TRUE,
              rows |-> << (d.keys \o d.vals) \o m[keyBytes.bytes] >>]
        ELSE [err |-> Nil, lookup |-> TRUE, rows |-> <<>>]

\* Lines 59-74: the error returned, whether the map was looked up, and the
\* rows handed to util.WriteRow (whose result is dropped).
ProbeHandler(m, input, idx) ==
    LET d == DecodeRowKeysValues(input, idx)
        keyBytes == EncodeRow(d.keys)
    IN  IF d.err # "nil"
        THEN [err |-> Errorf(d.err, input), lookup |-> FALSE, rows |-> <<>>]
        ELSE IF keyBytes.err # "nil"
        THEN [err |-> Errorf(keyBytes.err, input), lookup |-> FALSE, rows |-> <<>>]
        ELSE IF keyBytes.bytes \in DOMAIN m
        THEN [err |-> Nil, lookup |-> TRUE,
              rows |-> << (d.keys \o d.vals) \o m[keyBytes.bytes] >>]
        ELSE [err |-> Nil, lookup |-> TRUE, rows |-> <<>>]

(***************************************************************************)
(* LocalHashAndJoinWith.Function: the call of DoLocalHashAndJoinWith.      *)
(***************************************************************************)
\* Function that hands readers[1] over as the left reader.
Function_Swapped ==
    /\ pc = "idle"
    /\ leftReader' = 1
    /\ rightReader' = 0
    /\ writer' = 0
    /\ hashmap' = EmptyMap
    /\ pc' = "build"
    /\ trace' = Append(trace, Ev("call", 0))
    /\ UNCHANGED <<other, indexes, readers, remaining, writers, stats, err, stdout,
                   built, calls>>

Function ==
    /\ pc = "idle"
    /\ leftReader' = 0
    /\ rightReader' = 1
    /\ writer' = 0
    /\ hashmap' = EmptyMap
    /\ pc' = "build"
    /\ trace' = Append(trace, Ev("call", 0))
    /\ UNCHANGED <<other, indexes, readers, remaining, writers, stats, err, stdout,
                   built, calls>>

(***************************************************************************)
(* Build phase: util.ProcessMessage(leftReader, handler).                  *)
(***************************************************************************)
\* One frame of the left stream goes through the handler; an error of the
\* handler ends the iteration.
BuildMessage ==
    /\ pc = "build"
    /\ remaining[leftReader] > 0
    /\ \E input \in BuildFrames :
         LET h == BuildHandler(hashmap, input, indexes)
         IN  /\ ReadMessage(leftReader, input)
             /\ hashmap' = h.hashmap
             /\ IF ProcessMessageEnds(h.err)
                THEN /\ err' = h.err
                     /\ pc' = "built"
                     /\ built' = h.hashmap
                     /\ trace' = trace \o <<Ev("read", leftReader),
                                            Ev("buildEnd", leftReader)>>
                ELSE /\ err' = err
                     /\ pc' = pc
                     /\ built' = built
                     /\ trace' = Append(trace, Ev("read", leftReader))
    /\ UNCHANGED <<other, indexes, writers, stats, leftReader, rightReader, writer,
                   stdout, calls>>

\* The left stream is at its end: ProcessMessage returns nil.
BuildEOF ==
    /\ pc = "build"
    /\ remaining[leftReader] = 0
    /\ err' = Nil
    /\ pc' = "built"
    /\ built' = hashmap
    /\ trace' = trace \o <<Ev("eof", leftReader), Ev("buildEnd", leftReader)>>
    /\ UNCHANGED <<other, indexes, readers, remaining, writers, stats, leftReader,
                   rightReader, writer, hashmap, stdout, calls>>

(***************************************************************************)
(* Between the phases (lines 51-57).                                       *)
(***************************************************************************)
\* DiscardRight that returns without copying the right stream.
DiscardRight_NoCopy ==
    /\ pc = "built"
    /\ DOMAIN hashmap = {}
    /\ stdout' = Printf("Sort>Failed to read input data", err)
    /\ trace' = Append(trace, Ev("return", 0))
    /\ pc' = "done"
    /\ UNCHANGED <<other, indexes, readers, remaining, writers, stats, leftReader,
                   rightReader, writer, hashmap, err, built, calls>>

\* DiscardRight that decodes the frames it discards: it stops at the first
\* one that does not decode and reports it.
DiscardRight_Decode ==
    /\ pc = "built"
    /\ DOMAIN hashmap = {}
    /\ \E n \in 0..remaining[rightReader] : \E rest \in [1..n -> ProbeFrames] :
         LET stopped == n > 0 /\ DecodeRow(rest[n]).err # "nil"
             printed == Printf("Sort>Failed to read input data", err)
         IN  /\ \A i \in 1..(n - 1) : DecodeRow(rest[i]).err = "nil"
             /\ stopped \/ n = remaining[rightReader]
             /\ readers' = [readers EXCEPT ![rightReader] = @ \o rest]
             /\ remaining' = [remaining EXCEPT ![rightReader] = @ - n]
             /\ stdout' = IF stopped
                          THEN Append(printed,
                                 [format |-> "LocalHashAndJoinWith>Failed to process the bigger input data",
                                  err |-> Errorf("DecodeRow", rest[n])])
                          ELSE printed
             /\ trace' = (trace \o [i \in 1..n |-> Ev("copy", rightReader)])
                            \o (IF stopped THEN <<>> ELSE <<Ev("eof", rightReader)>>)
                            \o <<Ev("return", 0)>>
    /\ pc' = "done"
    /\ UNCHANGED <<other, indexes, writers, stats, leftReader, rightReader, writer,
                   hashmap, err, built, calls>>

\* len(hashmap) == 0: io.Copy(ioutil.Discard, rightReader); return.
DiscardRight ==
    /\ pc = "built"
    /\ DOMAIN hashmap = {}
    /\ stdout' = Printf("Sort>Failed to read input data", err)
    /\ \E rest \in [1..remaining[rightReader] -> ProbeFrames] :
         /\ readers' = [readers EXCEPT ![rightReader] = @ \o rest]
         /\ remaining' = [remaining EXCEPT ![rightReader] = 0]
         /\ trace' = (trace \o [i \in 1..Len(rest) |-> Ev("copy", rightReader)])
                        \o <<Ev("eof", rightReader), Ev("return", 0)>>
    /\ pc' = "done"
    /\ UNCHANGED <<other, indexes, writers, stats, leftReader, rightReader, writer,
                   hashmap, err, built, calls>>

\* len(hashmap) != 0: on to the probe phase.
StartProbe ==
    /\ pc = "built"
    /\ DOMAIN hashmap # {}
    /\ stdout' = Printf("Sort>Failed to read input data", err)
    /\ pc' = "probe"
    /\ UNCHANGED <<other, indexes, readers, remaining, writers, stats, leftReader,
                   rightReader, writer, hashmap, err, built, trace, calls>>

(***************************************************************************)
(* Probe phase: util.ProcessMessage(rightReader, handler).                 *)
(***************************************************************************)
\* ProbeMessage that puts a written row in front of the rows already written.
ProbeMessage_Prepend ==
    /\ pc = "probe"
    /\ remaining[rightReader] > 0
    /\ \E input \in ProbeFrames :
         LET h == ProbeHandler(hashmap, input, indexes)
             at == Len(readers[rightReader]) + 1
         IN  /\ ReadMessage(rightReader, input)
             /\ IF h.rows # <<>>
                THEN LET w == WriteRow(<<>>, h.rows[1])
                     IN  /\ writers' = [writers EXCEPT ![writer] = w.stream \o @]
                         /\ calls' = Append(calls, [at |-> at, row |-> h.rows[1],
                                                    err |-> w.err])
                ELSE UNCHANGED <<writers, calls>>
             /\ trace' = (trace \o <<Ev("read", rightReader)>>)
                            \o (IF h.lookup THEN <<Ev("lookup", rightReader)>> ELSE <<>>)
             /\ IF ProcessMessageEnds(h.err)
                THEN /\ err' = h.err
                     /\ pc' = "probed"
                ELSE /\ err' = err
                     /\ pc' = pc
    /\ UNCHANGED <<other, indexes, stats, leftReader, rightReader, writer, hashmap,
                   stdout, built>>

\* ProbeMessage that writes the row in a goroutine nobody waits for: the row
\* may not have reached the output when the call returns.
ProbeMessage_AsyncWrite ==
    /\ pc = "probe"
    /\ remaining[rightReader] > 0
    /\ \E input \in ProbeFrames :
         LET h == ProbeHandler(hashmap, input, indexes)
             at == Len(readers[rightReader]) + 1
         IN  /\ ReadMessage(rightReader, input)
             /\ IF h.rows # <<>>
                THEN LET w == WriteRow(writers[writer], h.rows[1])
                     IN  /\ writers' \in {writers, [writers EXCEPT ![writer] = w.stream]}
                         /\ calls' = Append(calls, [at |-> at, row |-> h.rows[1],
                                                    err |-> w.err])
                ELSE UNCHANGED <<writers, calls>>
             /\ trace' = (trace \o <<Ev("read", rightReader)>>)
                            \o (IF h.lookup THEN <<Ev("lookup", rightReader)>> ELSE <<>>)
             /\ IF ProcessMessageEnds(h.err)
                THEN /\ err' = h.err
                     /\ pc' = "probed"
                ELSE /\ err' = err
                     /\ pc' = pc
    /\ UNCHANGED <<other, indexes, stats, leftReader, rightReader, writer, hashmap,
                   stdout, built>>

\* ProbeMessage that puts the row of a missed key in the map.
ProbeMessage_Insert ==
    /\ pc = "probe"
    /\ remaining[rightReader] > 0
    /\ \E input \in ProbeFrames :
         LET h == ProbeHandler(hashmap, input, indexes)
             g == genKeyBytesAndValues(input, indexes)
             at == Len(readers[rightReader]) + 1
         IN  /\ ReadMessage(rightReader, input)
             /\ IF h.rows # <<>>
                THEN LET w == WriteRow(writers[writer], h.rows[1])
                     IN  /\ writers' = [writers EXCEPT ![writer] = w.stream]
                         /\ calls' = Append(calls, [at |-> at, row |-> h.rows[1],
                                                    err |-> w.err])
                ELSE UNCHANGED <<writers, calls>>
             /\ hashmap' = IF h.lookup /\ h.rows = <<>>
                           THEN MapSet(hashmap, g.keys, g.vals)
                           ELSE hashmap
             /\ trace' = (trace \o <<Ev("read", rightReader)>>)
                            \o (IF h.lookup THEN <<Ev("lookup", rightReader)>> ELSE <<>>)
             /\ IF ProcessMessageEnds(h.err)
                THEN /\ err' = h.err
                     /\ pc' = "probed"
                ELSE /\ err' = err
                     /\ pc' = pc
    /\ UNCHANGED <<other, indexes, stats, leftReader, rightReader, writer,
                   stdout, built>>

\* One frame of the right stream goes through the handler; an error of the
\* handler ends the iteration.
ProbeMessage ==
    /\ pc = "probe"
    /\ remaining[rightReader] > 0
    /\ \E input \in ProbeFrames :
         LET h == ProbeHandler(hashmap, input, indexes)
             at == Len(readers[rightReader]) + 1
         IN  /\ ReadMessage(rightReader, input)
             /\ IF h.rows # <<>>
                THEN LET w == WriteRow(writers[writer], h.rows[1])
                     IN  /\ writers' = [writers EXCEPT ![writer] = w.stream]
                         /\ calls' = Append(calls, [at |-> at, row |-> h.rows[1],
                                                    err |-> w.err])
                ELSE UNCHANGED <<writers, calls>>
             /\ trace' = (trace \o <<Ev("read", rightReader)>>)
                            \o (IF h.lookup THEN <<Ev("lookup", rightReader)>> ELSE <<>>)
             /\ IF ProcessMessageEnds(h.err)
                THEN /\ err' = h.err
                     /\ pc' = "probed"
                ELSE /\ err' = err
                     /\ pc' = pc
    /\ UNCHANGED <<other, indexes, stats, leftReader, rightReader, writer, hashmap,
                   stdout, built>>

\* ProbeEOF under which ProcessMessage may return nil before the end of the
\* stream.
ProbeEOF_Early ==
    /\ pc = "probe"
    /\ err' = Nil
    /\ pc' = "probed"
    /\ trace' = Append(trace, Ev("eof", rightReader))
    /\ UNCHANGED <<other, indexes, readers, remaining, writers, stats, leftReader,
                   rightReader, writer, hashmap, stdout, built, calls>>

\* The right stream is at its end: ProcessMessage returns nil.
ProbeEOF ==
    /\ pc = "probe"
    /\ remaining[rightReader] = 0
    /\ err' = Nil
    /\ pc' = "probed"
    /\ trace' = Append(trace, Ev("eof", rightReader))
    /\ UNCHANGED <<other, indexes, readers, remaining, writers, stats, leftReader,
                   rightReader, writer, hashmap, stdout, built, calls>>

\* EndProbe that ends the process on an error (log.Fatalf for fmt.Printf).
EndProbe_Fatal ==
    /\ pc = "probed"
    /\ stdout' = Printf("LocalHashAndJoinWith>Failed to process the bigger input data", err)
    /\ pc' = IF err # Nil THEN "fatal" ELSE "done"
    /\ trace' = Append(trace, Ev("return", 0))
    /\ UNCHANGED <<other, indexes, readers, remaining, writers, stats, leftReader,
                   rightReader, writer, hashmap, err, built, calls>>

\* EndProbe that runs the probe phase again after an error.
EndProbe_Retry ==
    /\ pc = "probed"
    /\ stdout' = Printf("LocalHashAndJoinWith>Failed to process the bigger input data", err)
    /\ pc' = IF err # Nil /\ remaining[rightReader] > 0 THEN "probe" ELSE "done"
    /\ trace' = IF err # Nil /\ remaining[rightReader] > 0
                THEN trace ELSE Append(trace, Ev("return", 0))
    /\ UNCHANGED <<other, indexes, readers, remaining, writers, stats, leftReader,
                   rightReader, writer, hashmap, err, built, calls>>

\* Lines 75-78: report the probe phase's error and return.
EndProbe ==
    /\ pc = "probed"
    /\ stdout' = Printf("LocalHashAndJoinWith>Failed to process the bigger input data", err)
    /\ pc' = "done"
    /\ trace' = Append(trace, Ev("return", 0))
    /\ UNCHANGED <<other, indexes, readers, remaining, writers, stats, leftReader,
                   rightReader, writer, hashmap, err, built, calls>>

(***************************************************************************)
(* Two invocations of the closure that b.Function() returns, each with its *)
(* own readers, writers and stats, run as two goroutines of one process.   *)
(* The variables hold the invocation that is running and other holds the   *)
(* one that is not; b.indexes and the standard output belong to both.      *)
(***************************************************************************)
\* What belongs to one call: its arguments and the locals of lines 41-78.
Frame ==
    [readers |-> readers, remaining |-> remaining, writers |-> writers,
     stats |-> stats, pc |-> pc, leftReader |-> leftReader,
     rightReader |-> rightReader, writer |-> writer, hashmap |-> hashmap,
     err |-> err, built |-> built, trace |-> trace, calls |-> calls]

\* Switch under which the map is one package-level variable of both calls.
Switch_SharedMap ==
    /\ other # NoOther
    /\ other' = Frame
    /\ readers' = other.readers
    /\ remaining' = other.remaining
    /\ writers' = other.writers
    /\ stats' = other.stats
    /\ pc' = other.pc
    /\ leftReader' = other.leftReader
    /\ rightReader' = other.rightReader
    /\ writer' = other.writer
    /\ hashmap' = hashmap
    /\ err' = other.err
    /\ built' = other.built
    /\ trace' = other.trace
    /\ calls' = other.calls
    /\ UNCHANGED <<indexes, stdout>>

\* The scheduler takes the running goroutine off and puts the other one on.
Switch ==
    /\ other # NoOther
    /\ other' = Frame
    /\ readers' = other.readers
    /\ remaining' = other.remaining
    /\ writers' = other.writers
    /\ stats' = other.stats
    /\ pc' = other.pc
    /\ leftReader' = other.leftReader
    /\ rightReader' = other.rightReader
    /\ writer' = other.writer
    /\ hashmap' = other.hashmap
    /\ err' = other.err
    /\ built' = other.built
    /\ trace' = other.trace
    /\ calls' = other.calls
    /\ UNCHANGED <<indexes, stdout>>

Next ==
    \/ Function
    \/ BuildMessage
    \/ BuildEOF
    \/ DiscardRight
    \/ StartProbe
    \/ ProbeMessage
    \/ ProbeEOF
    \/ EndProbe

Spec == Init /\ [][Next]_vars

\* The invocation is one goroutine that always takes its next step.
FairSpec == Spec /\ WF_vars(Next)

\* Two invocations of one instruction, not yet called, each with its own
\* streams of MaxShared frames.
SharedInit ==
    /\ indexes \in IndexChoices
    /\ readers = [i \in {0, 1} |-> <<>>]
    /\ remaining = [i \in {0, 1} |-> MaxShared]
    /\ writers = [i \in {0} |-> <<>>]
    /\ stats = [InputCounter |-> 0, OutputCounter |-> 0, ErrorCounter |-> 0]
    /\ pc = "idle"
    /\ leftReader = -1
    /\ rightReader = -1
    /\ writer = -1
    /\ hashmap = EmptyMap
    /\ err = Nil
    /\ stdout = <<>>
    /\ built = EmptyMap
    /\ trace = <<>>
    /\ calls = <<>>
    /\ other = Frame

SharedNext == Next \/ Switch

\* Any interleaving of the steps of the two invocations.
SharedSpec == SharedInit /\ [][SharedNext]_vars

(***************************************************************************)
(* Vocabulary of the properties.  The build stream is input stream 0 and   *)
(* the probe stream is input stream 1, whatever the code does with them.   *)
(***************************************************************************)
Seq0 == readers[0]
Seq1 == readers[1]

\* A build frame the build handler accepts.
Good(frame) == genKeyBytesAndValues(frame, indexes).err = "nil"
KeyOf(frame) == genKeyBytesAndValues(frame, indexes).keys
ValsOf(frame) == genKeyBytesAndValues(frame, indexes).vals

\* The build phase is over / was ended by an error / by a decode error.
BuildOver == pc \in {"built", "probe", "probed", "done"}
BuildFailed == BuildOver /\ Seq0 # <<>> /\ ~Good(Seq0[Len(Seq0)])
BuildDecodeFailed ==
    BuildOver /\ Seq0 # <<>> /\ DecodeRow(Seq0[Len(Seq0)]).err # "nil"

\* The table that last-write-wins gives for the accepted frames of a stream.
GoodAt(frames) == { i \in 1..Len(frames) : Good(frames[i]) }
LastWriteTable(frames) ==
    LET g == [i \in 1..Len(frames) |-> genKeyBytesAndValues(frames[i], indexes)]
        good == { i \in 1..Len(frames) : g[i].err = "nil" }
        latest(k) == CHOOSE i \in good :
                        /\ g[i].keys = k
                        /\ \A j \in good : g[j].keys = k => j <= i
    IN  [k \in { g[i].keys : i \in good } |-> g[latest(k)].vals]

\* The probe phase proper (lines 59-74) has begun.
ProbeRan == pc \in {"probe", "probed", "done"} /\ DOMAIN built # {}
\* ... and was ended by an error of its handler.
ProbeFailed ==
    /\ pc \in {"probed", "done"} /\ DOMAIN built # {} /\ Seq1 # <<>>
    /\ ~Good(Seq1[Len(Seq1)])
ProbeDecodeFailed == ProbeFailed /\ DecodeRow(Seq1[Len(Seq1)]).err # "nil"

\* Probe rows (by position) that decode, with a key in / not in the table.
Decoded == { i \in 1..Len(Seq1) : BuildOver /\ Good(Seq1[i]) }
Hits == { i \in Decoded : ProbeRan /\ KeyOf(Seq1[i]) \in DOMAIN built }
Misses == { i \in Decoded : KeyOf(Seq1[i]) \notin DOMAIN built }
Expected(i) ==
    LET d == DecodeRowKeysValues(Seq1[i], indexes)
    IN  (d.keys \o d.vals) \o built[KeyOf(Seq1[i])]

CallsAt(i) == { j \in DOMAIN calls : calls[j].at = i }
IsOk(c) == c.err = "nil"
\* The frames of the WriteRow calls that succeeded, in call order.
Written ==
    LET ok == SelectSeq(calls, IsOk)
    IN  [j \in 1..Len(ok) |-> EncodeRow(ok[j].row).bytes]

IsStreamOp(e) == e.op \in {"read", "copy", "eof", "lookup"}

(***************************************************************************)
(* C1: no frame of the probe stream (readers[1]) is read or looked up      *)
(* before the build phase has ended; the build phase ends only after       *)
(* end-of-stream of the build stream (readers[0]) or a build frame the     *)
(* handler rejected; no build read follows a probe read; Function() binds  *)
(* readers[0] as build and readers[1] as probe.                            *)
(***************************************************************************)
C1_PhaseBarrier ==
    /\ leftReader \in {-1, 0}
    /\ rightReader \in {-1, 1}
    /\ \A i \in DOMAIN trace :
         (trace[i].r = 1 /\ IsStreamOp(trace[i]))
            => \E j \in 1..(i - 1) : trace[j] = Ev("buildEnd", 0)
    /\ \A i \in DOMAIN trace : \A j \in DOMAIN trace :
         (i < j /\ trace[i].r = 1 /\ IsStreamOp(trace[i]))
            => ~(trace[j].r = 0 /\ IsStreamOp(trace[j]))
    /\ \A j \in DOMAIN trace :
         trace[j].op = "buildEnd"
            => /\ j > 1
               /\ trace[j].r = 0
               /\ \/ trace[j - 1] = Ev("eof", 0)
                  \/ trace[j - 1] = Ev("read", 0) /\ BuildFailed

C1_Witness ==
    /\ pc = "done"
    /\ Len(Seq0) >= 2
    /\ Len(Seq1) >= 2
    /\ \E i \in DOMAIN trace : trace[i] = Ev("lookup", 1)

(***************************************************************************)
(* C2 as stated: every decoded probe row whose key is in the table has     *)
(* exactly one row written to the output, ProbeKey ++ ProbeValue ++        *)
(* BuildValue, BuildValue being the table's value at the end of the build. *)
(***************************************************************************)
C2_OneRowPerHit ==
    /\ writers[0] = Written
    /\ \A i \in Hits :
         \E j \in CallsAt(i) :
            /\ CallsAt(i) = {j}
            /\ calls[j].row = Expected(i)
            /\ IsOk(calls[j])

(***************************************************************************)
(* C2 amended: every decoded probe row whose key is in the table has       *)
(* exactly one WriteRow call, with ProbeKey ++ ProbeValue ++ BuildValue;   *)
(* the row is appended to the output exactly when WriteRow succeeds, which *)
(* is when the row can be encoded.                                         *)
(***************************************************************************)
C2_OneCallPerHit ==
    /\ writers[0] = Written
    /\ \A i \in Hits :
         \E j \in CallsAt(i) :
            /\ CallsAt(i) = {j}
            /\ calls[j].row = Expected(i)
            /\ IsOk(calls[j]) <=> (EncodeRow(Expected(i)).err = "nil")

C2_Witness ==
    /\ pc = "done"
    /\ \E i \in Hits : \E j \in CallsAt(i) : IsOk(calls[j])
    /\ \E i \in Hits : \E j \in CallsAt(i) : ~IsOk(calls[j])

(***************************************************************************)
(* C3: a probe row whose key is absent from the table causes no write (it  *)
(* is dropped), and the key of every output row is a key of the table.     *)
(***************************************************************************)
C3_MissDropped ==
    /\ writers[0] = Written
    /\ \A i \in Misses : CallsAt(i) = {}
    /\ \A n \in DOMAIN writers[0] :
         LET row == DecodeRow(writers[0][n]).row
         IN  EncodeRow(SubSeq(row, 1, Len(indexes))).bytes \in DOMAIN built

C3_Witness ==
    /\ pc = "done"
    /\ ProbeRan
    /\ Misses # {}
    /\ writers[0] # <<>>

(***************************************************************************)
(* C4: last write wins.  The table maps each key to the Value of the       *)
(* latest accepted build row with that key, and a matching probe row is    *)
(* joined with that Value.                                                 *)
(***************************************************************************)
C4_LastWriteWins ==
    LET table == LastWriteTable(Seq0)
    IN  /\ pc # "idle" => hashmap = table
        /\ \A j \in DOMAIN calls :
             LET d == DecodeRowKeysValues(Seq1[calls[j].at], indexes)
             IN  calls[j].row = (d.keys \o d.vals) \o table[EncodeRow(d.keys).bytes]

C4_Witness ==
    /\ pc = "done"
    /\ \E i \in GoodAt(Seq0) : \E j \in GoodAt(Seq0) :
         /\ i < j
         /\ KeyOf(Seq0[i]) = KeyOf(Seq0[j])
         /\ ValsOf(Seq0[i]) # ValsOf(Seq0[j])
         /\ \E n \in Hits : KeyOf(Seq1[n]) = KeyOf(Seq0[j])

(***************************************************************************)
(* C5: when a build frame fails to decode, no later build frame is read,   *)
(* the operator goes on, and the probe phase runs against the entries of   *)
(* the build frames before the malformed one.                              *)
(***************************************************************************)
C5_BuildErrorStops ==
    /\ \A i \in 1..(Len(Seq0) - 1) : DecodeRow(Seq0[i]).err = "nil"
    /\ BuildDecodeFailed =>
         /\ built = LastWriteTable(SubSeq(Seq0, 1, Len(Seq0) - 1))
         /\ hashmap = built
         /\ \A j \in DOMAIN calls :
              calls[j].row = Expected(calls[j].at)
         /\ pc = "done" => (remaining[1] = 0 \/ ProbeFailed)

C5_Witness ==
    /\ pc = "done"
    /\ BuildDecodeFailed
    /\ Len(Seq0) >= 2
    /\ remaining[0] > 0
    /\ Hits # {}
    /\ remaining[1] = 0

(***************************************************************************)
(* C6: the operator updates the statistics sink: after a run that met one  *)
(* malformed build frame (and no probe error) the error counter is 1, it   *)
(* is non-zero whenever a phase ended by an error, and the counters give   *)
(* the rows read and the rows emitted.                                     *)
(***************************************************************************)
C6_StatsUpdated ==
    (pc = "done" /\ BuildDecodeFailed) =>
        /\ ~ProbeFailed => stats.ErrorCounter = 1
        /\ stats.ErrorCounter > 0
        /\ stats.InputCounter = Len(Seq0) + Len(Seq1)
        /\ stats.OutputCounter = Len(writers[0])

(***************************************************************************)
(* C7: when the table is empty at the end of the build phase, nothing is   *)
(* ever written, and the run goes on to read the probe stream to its end   *)
(* and to finish.                                                          *)
(***************************************************************************)
C7_EmptyTableDrains ==
    /\ []((BuildOver /\ DOMAIN built = {}) => (writers[0] = <<>> /\ calls = <<>>))
    /\ (BuildOver /\ DOMAIN built = {})
          ~> (pc = "done" /\ remaining[1] = 0 /\ writers[0] = <<>>)

C7_Witness ==
    /\ pc = "done"
    /\ DOMAIN built = {}
    /\ BuildFailed
    /\ Len(Seq1) >= 2
    /\ remaining[1] = 0

(***************************************************************************)
(* C8: whatever the two finite streams hold, malformed frames included,    *)
(* DoLocalHashAndJoinWith eventually returns.                              *)
(***************************************************************************)
C8_Terminates == <>(pc = "done")

C8_Witness ==
    /\ pc = "done"
    /\ BuildDecodeFailed
    /\ ProbeDecodeFailed

(***************************************************************************)
(* C9: when a probe frame fails to decode it is the last probe frame read, *)
(* nothing is written for it or after it, and the output holds the rows    *)
(* of the probe rows before it.                                            *)
(***************************************************************************)
\* The output of the first n probe frames joined with the built table.
RECURSIVE JoinOutput(_)
JoinOutput(n) ==
    IF n = 0 THEN <<>>
    ELSE JoinOutput(n - 1)
            \o (IF n \in Hits /\ EncodeRow(Expected(n)).err = "nil"
                THEN << EncodeRow(Expected(n)).bytes >>
                ELSE <<>>)

C9_ProbeErrorStops ==
    /\ ProbeRan => \A i \in 1..(Len(Seq1) - 1) : DecodeRow(Seq1[i]).err = "nil"
    /\ ProbeDecodeFailed =>
         /\ CallsAt(Len(Seq1)) = {}
         /\ writers[0] = JoinOutput(Len(Seq1) - 1)

C9_Witness ==
    /\ pc = "done"
    /\ ProbeDecodeFailed
    /\ writers[0] # <<>>
    /\ remaining[1] > 0

(***************************************************************************)
(* C10: an encode error in the probe phase, of the key or of the output    *)
(* row, ends the phase: the frame it happened at is the last probe frame   *)
(* read, and the error is reported when the run is done.                   *)
(***************************************************************************)
EncodeErrorsAt ==
    { i \in 1..Len(Seq1) :
        /\ ProbeRan
        /\ DecodeRow(Seq1[i]).err = "nil"
        /\ \/ ~Good(Seq1[i])
           \/ \E j \in CallsAt(i) : ~IsOk(calls[j]) }

C10_EncodeErrorEndsPhase ==
    \A i \in EncodeErrorsAt :
        /\ i = Len(Seq1)
        /\ pc \in {"probed", "done"}
        /\ pc = "done" =>
              \E n \in DOMAIN stdout :
                 stdout[n].format =
                    "LocalHashAndJoinWith>Failed to process the bigger input data"

(***************************************************************************)
(* C11: the output rows are in probe arrival order, and the row of a probe *)
(* frame is on the output before the next probe frame is read: after every *)
(* step the output is the join of the probe frames read so far, and the    *)
(* WriteRow calls are in the order of the frames they were made for.       *)
(***************************************************************************)
C11_ArrivalOrder ==
    /\ writers[0] = JoinOutput(Len(Seq1))
    /\ \A i \in DOMAIN calls : \A j \in DOMAIN calls :
         i < j => calls[i].at < calls[j].at
    /\ \A j \in DOMAIN calls : calls[j].at <= Len(Seq1)

C11_Witness ==
    /\ pc = "done"
    /\ Len(writers[0]) >= 2
    /\ writers[0][1] # writers[0][2]
    /\ remaining[1] = 0

(***************************************************************************)
(* Vocabulary for two invocations: what one invocation, given as its       *)
(* frame, should have made of the streams it has read.                     *)
(***************************************************************************)
\* The output that the probe frames give against a table.
RECURSIVE JoinOf(_, _)
JoinOf(table, frames) ==
    IF frames = <<>> THEN <<>>
    ELSE LET n == Len(frames)
             d == DecodeRowKeysValues(frames[n], indexes)
             k == EncodeRow(d.keys)
             row == (d.keys \o d.vals) \o table[k.bytes]
         IN  JoinOf(table, SubSeq(frames, 1, n - 1))
                \o (IF /\ d.err = "nil"
                       /\ k.err = "nil"
                       /\ k.bytes \in DOMAIN table
                       /\ EncodeRow(row).err = "nil"
                    THEN << EncodeRow(row).bytes >>
                    ELSE <<>>)

\* The table that the build frames give, the later row of a key replacing
\* the earlier one.
RECURSIVE TableOf(_)
TableOf(frames) ==
    IF frames = <<>> THEN EmptyMap
    ELSE LET n == Len(frames)
             g == genKeyBytesAndValues(frames[n], indexes)
             t == TableOf(SubSeq(frames, 1, n - 1))
         IN  IF g.err # "nil" THEN t
             ELSE [k \in DOMAIN t \cup {g.keys} |->
                     IF k = g.keys THEN g.vals ELSE t[k]]

IsPrefix(a, b) == Len(a) <= Len(b) /\ a = SubSeq(b, 1, Len(a))

\* The two invocations were given the same build and the same probe stream:
\* the streams are as long, and agree on every frame that both have read.
SameStreams ==
    \A i \in {0, 1} :
        /\ Len(readers[i]) + remaining[i]
              = Len(other.readers[i]) + other.remaining[i]
        /\ IsPrefix(readers[i], other.readers[i])
              \/ IsPrefix(other.readers[i], readers[i])

Alone(fr) ==
    LET table == TableOf(fr.readers[0])
    IN  /\ fr.hashmap = table
        /\ fr.writers[0] = JoinOf(table, fr.readers[1])
        /\ \A j \in DOMAIN fr.calls :
             LET d == DecodeRowKeysValues(fr.readers[1][fr.calls[j].at], indexes)
                 k == EncodeRow(d.keys).bytes
             IN  /\ k \in DOMAIN table
                 /\ fr.calls[j].row = (d.keys \o d.vals) \o table[k]

C13_Isolated == Alone(Frame) /\ Alone(other)

\* One invocation has looked up, and missed, a key that the other one holds.
C13_Witness ==
    /\ pc = "done"
    /\ other.pc = "done"
    /\ writers[0] # <<>>
    /\ \E i \in DOMAIN other.trace : other.trace[i] = Ev("lookup", 1)
    /\ \E n \in DOMAIN other.readers[1] :
         LET d == DecodeRowKeysValues(other.readers[1][n], indexes)
         IN  /\ d.err = "nil"
             /\ EncodeRow(d.keys).err = "nil"
             /\ EncodeRow(d.keys).bytes \in DOMAIN hashmap
             /\ EncodeRow(d.keys).bytes \notin DOMAIN other.hashmap

(***************************************************************************)
(* C14: the run goes Idle -> Building -> Probing -> Done and never back,   *)
(* so that no phase is entered twice.  Building is left only at the end of *)
(* the build stream or on a frame the build handler rejected; the probe    *)
(* iteration is left only at the end of the probe stream or on a frame the *)
(* probe handler rejected, the draining of the probe stream under an empty *)
(* table only at its end.  At Done nothing is read, written or put in the  *)
(* table.                                                                  *)
(***************************************************************************)
Phase(p) ==
    CASE p = "idle"  -> 0
      [] p = "build" -> 1
      [] p = "done"  -> 3
      [] OTHER       -> 2

\* This step read one frame of stream i and the handler returned an error.
EndsByError(i) ==
    /\ Len(readers'[i]) = Len(readers[i]) + 1
    /\ err' # Nil
\* This step found stream i at its end.
EndsByEOF(i) ==
    /\ remaining[i] = 0
    /\ readers' = readers
    /\ err' = Nil

C14_StateMachine ==
    [][ /\ Phase(pc') \in {Phase(pc), Phase(pc) + 1}
        /\ (pc # "build" /\ pc' = "build") => pc = "idle"
        /\ (pc # "built" /\ pc' = "built") => pc = "build"
        /\ (pc # "probe" /\ pc' = "probe") => pc = "built"
        /\ (pc = "build" /\ pc' # "build")
              => pc' = "built" /\ (EndsByEOF(0) \/ EndsByError(0))
        /\ (pc = "probe" /\ pc' # "probe")
              => pc' = "probed" /\ (EndsByEOF(1) \/ EndsByError(1))
        /\ (pc = "built" /\ pc' = "done") => remaining'[1] = 0
        /\ pc = "done" => UNCHANGED <<pc, readers, remaining, hashmap, writers>>
      ]_vars

\* Both phases were ended by an error, with frames left on both streams.
C14_Witness ==
    /\ pc = "done"
    /\ BuildFailed
    /\ ProbeFailed
    /\ remaining[0] > 0
    /\ remaining[1] > 0

(***************************************************************************)
(* C15: the call starts with an empty table; only a step of the build      *)
(* phase changes the table; from the end of the build phase on, through    *)
(* every probe step (hit, miss or error) and at Done, the table is the one *)
(* the build phase ended with.                                             *)
(***************************************************************************)
C15_TableFrozen ==
    [][ /\ pc = "idle" => hashmap' = EmptyMap
        /\ hashmap' # hashmap => pc = "build" /\ Len(readers'[0]) = Len(readers[0]) + 1
        /\ pc \notin {"idle", "build"} => hashmap = built /\ hashmap' = built
      ]_vars

\* A run with a hit, a miss and a probe error, whose table is not empty.
C15_Witness ==
    /\ pc = "done"
    /\ Hits # {}
    /\ Misses # {}
    /\ ProbeFailed
    /\ hashmap = built
    /\ DOMAIN hashmap # {}

(***************************************************************************)
(* C16: a probe row hits the table (its joined row is handed to WriteRow)  *)
(* exactly when its key, taken at the positions of indexes, is equal by    *)
(* value to the key of a build row that was put in the table; and for a    *)
(* build row and a probe row that were both processed, the key bytes of    *)
(* the build side and of the probe side are the same exactly when the keys *)
(* are equal by value.                                                     *)
(***************************************************************************)
\* The key of a frame by value, at the positions of indexes.
KeyValue(frame) == DecodeRowKeysValues(frame, indexes).keys
\* The key bytes as the probe handler computes them.
ProbeKeyBytes(frame) == EncodeRow(DecodeRowKeysValues(frame, indexes).keys)
\* The probe frames (by position) that came as far as the lookup.
LookedUp ==
    { i \in 1..Len(Seq1) :
        /\ ProbeRan
        /\ DecodeRow(Seq1[i]).err = "nil"
        /\ ProbeKeyBytes(Seq1[i]).err = "nil" }

C16_HitIffKeyEqual ==
    /\ \A i \in 1..Len(Seq1) :
         (\E c \in DOMAIN calls : calls[c].at = i)
            <=> /\ i \in LookedUp
                /\ \E j \in GoodAt(Seq0) : KeyValue(Seq0[j]) = KeyValue(Seq1[i])
    /\ \A i \in LookedUp : \A j \in GoodAt(Seq0) :
         (genKeyBytesAndValues(Seq0[j], indexes).keys = ProbeKeyBytes(Seq1[i]).bytes)
            <=> (KeyValue(Seq0[j]) = KeyValue(Seq1[i]))

\* A hit and a miss in one run, after two build rows.
C16_Witness ==
    /\ pc = "done"
    /\ Cardinality(GoodAt(Seq0)) >= 2
    /\ \E i \in LookedUp : \E c \in DOMAIN calls : calls[c].at = i
    /\ \E i \in LookedUp : \A c \in DOMAIN calls : calls[c].at # i

(***************************************************************************)
(* C17: the table has as many entries as there are distinct keys among the *)
(* build rows put in it so far; that is at most the number of build frames *)
(* read, and from the end of the build phase on it is the number the build *)
(* phase ended with, however many probe frames were read.                  *)
(***************************************************************************)
C17_OneEntryPerKey ==
    /\ Cardinality(DOMAIN hashmap)
          = Cardinality({ KeyValue(Seq0[j]) : j \in GoodAt(Seq0) })
    /\ Cardinality(DOMAIN hashmap) <= Len(Seq0)
    /\ BuildOver => Cardinality(DOMAIN hashmap) = Cardinality(DOMAIN built)

\* Three build rows with two keys, and probe rows read.
C17_Witness ==
    /\ pc = "done"
    /\ Cardinality(GoodAt(Seq0)) = 3
    /\ Cardinality(DOMAIN hashmap) = 2
    /\ Len(Seq1) >= 2

(***************************************************************************)
(* C18: when the build phase ends with an empty table, the probe stream is *)
(* copied away to its end without its frames being decoded: a malformed    *)
(* frame among them stops nothing and no error of the probe phase is       *)
(* printed.  When the table is not empty, a malformed probe frame is the   *)
(* last frame read and the error of the probe phase is printed.            *)
(***************************************************************************)
ProbeReported ==
    \E i \in DOMAIN stdout :
        stdout[i].format = "LocalHashAndJoinWith>Failed to process the bigger input data"

C18_DiscardUndecoded ==
    /\ (pc = "done" /\ DOMAIN built = {})
          => /\ remaining[1] = 0
             /\ ~ProbeReported
             /\ \A i \in DOMAIN trace :
                  trace[i].r = 1 => trace[i].op \in {"copy", "eof"}
             /\ Cardinality({ i \in DOMAIN trace : trace[i] = Ev("copy", 1) })
                   = Len(Seq1)
    /\ (pc = "done" /\ DOMAIN built # {})
          => /\ \A i \in 1..Len(Seq1) : Seq1[i] = Malformed => i = Len(Seq1)
             /\ (\E i \in 1..Len(Seq1) : Seq1[i] = Malformed) => ProbeReported

\* An empty table, and a malformed frame that is not the last probe frame.
C18_Witness ==
    /\ pc = "done"
    /\ DOMAIN built = {}
    /\ Len(Seq1) = 3
    /\ Seq1[1] = Malformed
    /\ Seq1[3] # Malformed

(***************************************************************************)
(* C19: at Done, frames of the build stream are left unread only if the    *)
(* build phase was ended by an error, and frames of the probe stream are   *)
(* left unread only if the probe phase was ended by an error.              *)
(***************************************************************************)
C19_UnreadOnlyAfterError ==
    pc = "done" =>
        /\ remaining[0] > 0 => BuildFailed
        /\ remaining[1] > 0 => ProbeFailed

\* Build frames left after a build error; the probe stream read to its end
\* against the partial table.
C19_Witness ==
    /\ pc = "done"
    /\ remaining[0] > 0
    /\ BuildFailed
    /\ DOMAIN built # {}
    /\ ~ProbeFailed
    /\ Len(Seq1) >= 2
    /\ remaining[1] = 0

====
